---- MODULE Spec2Model ----
(***************************************************************************)
(* Ignition firmware for the PIC 16F1824 (FIRMWARE/main.c).                *)
(*                                                                         *)
(* TIMER1 counts the edges of the signal on its clock pin while TMR1ON is  *)
(* set.  main() blinks the two leds five times, clears the counter and     *)
(* then loops forever: enable the counter, wait, disable it, read the      *)
(* 16 bit count into freq, drive the three outputs from the band of freq,  *)
(* clear the counter.                                                      *)
(*                                                                         *)
(* Every C statement of main() is one step of the model; pc names the      *)
(* statement that executes next.  The signal on the clock pin is the       *)
(* environment: pulses arrive between any two statements.                  *)
(***************************************************************************)
EXTENDS Integers, Naturals, Sequences, FiniteSets, TLC

(***************************************************************************)
(* Program constants                                                       *)
(***************************************************************************)
ON  == 1
OFF == 0

\* variant: the lower threshold one count too low
IGNITION_MIN_Low == 300 - 1

IGNITION_MIN == 300
IGNITION_MAX == 600
YODA_MIN     == 4500
YODA_MAX     == 5500

\* for(i=0;i<5;i++) of the startup led cycle
BLINK_COUNT == 5

\* unsigned int is 16 bits wide on this target, a register is 8 bits wide
UINT_MOD == 65536
BYTE_MOD == 256

(***************************************************************************)
(* Bounds of the model                                                     *)
(***************************************************************************)
\* iterations of the delay loop of one measurement window (delayerMs(1000))
WindowTicks == 2
\* iterations of the delay loop of one half blink (delayerMs(50))
BlinkTicks == 1
\* bursts of pulses that arrive during one open window
MaxBursts == 2
\* length of the runs of consecutive link-check cycles that are tracked
MaxRun == 3

\* number of pulses in one burst on the clock pin
PulseBursts == {1, 299, 300, 600, 4499, 5500, 65535}

\* values a register the program has not written yet may hold
Uninit8 == {0, 1, 255}

VARIABLES
    pc,            \* the statement of main() that executes next
    i,             \* main(): unsigned int i
    d,             \* delayerMs(): unsigned int i
    freq,          \* unsigned int freq
    LED_IGNITION,  \* LATC0
    LED_LINK,      \* LATC1
    MOS_GATE,      \* LATC5
    INPUT_DISABLE, \* LATA4
    TMR1ON,        \* T1CON bit 0
    TMR1H,         \* counter, high byte
    TMR1L,         \* counter, low byte
    \* history variables (not read by the program)
    winPulses,     \* pulses that arrived while the current window was open
    bursts,        \* bursts that arrived while the current window was open
    ignored,       \* pulses arrived while the counter was disabled, since the last window
    sigSeen,       \* some pulse arrived during some open window
    ignSeen,       \* some cycle read a count in the ignition band
    prevFreq,      \* between read and drive: the count read by the previous cycle
    priorLinkLed,  \* LED_LINK when the last classification was made
    linkRun,       \* consecutive link-check cycles so far (tracked up to MaxRun)
    runStart,      \* LED_LINK before the first cycle of the tracked run
    writes         \* writes of each output line since the last window was opened

outs  == <<LED_IGNITION, LED_LINK, MOS_GATE>>
tmr   == <<TMR1ON, TMR1H, TMR1L>>
env   == <<winPulses, bursts, ignored, sigSeen>>
hist  == <<ignSeen, prevFreq, priorLinkLed, linkRun, runStart>>
vars  == <<pc, i, d, freq, outs, INPUT_DISABLE, tmr, env, hist, writes>>

(***************************************************************************)
(* 16 bit arithmetic of the C expressions                                  *)
(***************************************************************************)
RECURSIVE BitOr(_, _, _)
\* a | b on the low n bits
BitOr(a, b, n) ==
    IF n = 0 THEN 0
    ELSE (IF (a % 2) + (b % 2) > 0 THEN 1 ELSE 0) + 2 * BitOr(a \div 2, b \div 2, n - 1)

\* variant: the shift is done in 8 bits (freq held in an unsigned char)
ShiftLeft8_Byte(x) == (x * BYTE_MOD) % BYTE_MOD

\* (unsigned int) x << 8
ShiftLeft8(x) == (x * BYTE_MOD) % UINT_MOD

\* ~x of an int, as an unsigned 16 bit pattern
BitNot(x) == (UINT_MOD - 1) - x

\* variant: conversion to a truth value (any non zero value gives 1)
ToBit_Bool(x) == IF x # 0 THEN 1 ELSE 0

\* assignment to a one bit field keeps the lowest bit
ToBit(x) == x % 2

\* the 16 bit counter as one number
Counter == TMR1H * BYTE_MOD + TMR1L

(***************************************************************************)
(* The two tests of the if / else if                                       *)
(***************************************************************************)
\* variant: the lower threshold is not tested
IsIgnition_NoLower(f) == f <= IGNITION_MAX

\* variant: hysteresis, the band is one count wider while the gate is on
IsIgnition_Hysteresis(f) == f >= IGNITION_MIN /\ f <= IGNITION_MAX + MOS_GATE

IsIgnition(f) == f >= IGNITION_MIN /\ f <= IGNITION_MAX

\* variant: the lower threshold is excluded
IsYoda_Strict(f) == f > YODA_MIN /\ f <= YODA_MAX

IsYoda(f) == f >= YODA_MIN /\ f <= YODA_MAX

(***************************************************************************)
(* Counting the writes of the output lines (history)                       *)
(***************************************************************************)
NoWrites == [ign |-> 0, link |-> 0, mos |-> 0]

Written(line) == [writes EXCEPT ![line] = @ + 1]

(***************************************************************************)
(* The bands as the specification states them; the history variables and   *)
(* the properties are written with these, the program with the tests above *)
(***************************************************************************)
InIgnitionBand(n) == n >= 300 /\ n <= 600

InLinkBand(n) == n >= 4500 /\ n <= 5500

(***************************************************************************)
(* init(): latches cleared, TIMER1 off; the counter registers are not      *)
(* written by init()                                                       *)
(***************************************************************************)
Init ==
    /\ pc = "for_i"
    /\ i = 0
    /\ d = 0
    /\ freq = 0
    /\ LED_IGNITION = 0
    /\ LED_LINK = 0
    /\ MOS_GATE = 0
    /\ INPUT_DISABLE = 0
    /\ TMR1ON = 0
    /\ TMR1H \in Uninit8
    /\ TMR1L \in Uninit8
    /\ winPulses = 0
    /\ bursts = 0
    /\ ignored = FALSE
    /\ sigSeen = FALSE
    /\ ignSeen = FALSE
    /\ prevFreq = 0
    /\ priorLinkLed = 0
    /\ linkRun = 0
    /\ runStart = 0
    /\ writes = NoWrites

(***************************************************************************)
(* The signal on the clock pin                                             *)
(***************************************************************************)
\* a burst of k pulses while the counter is enabled: the counter counts them
PulseCounted ==
    /\ TMR1ON = 1
    /\ bursts < MaxBursts
    /\ \E k \in PulseBursts :
        /\ TMR1H' = ((Counter + k) % UINT_MOD) \div BYTE_MOD
        /\ TMR1L' = ((Counter + k) % UINT_MOD) % BYTE_MOD
        /\ winPulses' = winPulses + k
    /\ bursts' = bursts + 1
    /\ sigSeen' = TRUE
    /\ UNCHANGED <<pc, i, d, freq, outs, INPUT_DISABLE, TMR1ON, ignored, hist, writes>>

\* pulses while the counter is disabled: the counter does not move
PulseIgnored ==
    /\ TMR1ON = 0
    /\ ignored' = TRUE
    /\ UNCHANGED <<pc, i, d, freq, outs, INPUT_DISABLE, tmr, winPulses, bursts, sigSeen, hist, writes>>

(***************************************************************************)
(* delayerMs(delay): for(i=0;i<delay;i++) __delay_ms(1);                   *)
(***************************************************************************)
\* variant: the loop variable is not incremented
delayerMs_NoIncrement(at, delay, next) ==
    /\ pc = at
    /\ IF d < delay
       THEN d' = d /\ pc' = pc
       ELSE d' = 0 /\ pc' = next

delayerMs(at, delay, next) ==
    /\ pc = at
    /\ IF d < delay
       THEN d' = d + 1 /\ pc' = pc
       ELSE d' = 0 /\ pc' = next

(***************************************************************************)
(* main(): the startup led cycle                                           *)
(***************************************************************************)
\* variant: the loop test is i <= 5
ForTest_Inclusive ==
    /\ pc = "for_i"
    /\ pc' = IF i <= BLINK_COUNT THEN "blink_ign_on" ELSE "clr_h"
    /\ UNCHANGED <<i, d, freq, outs, INPUT_DISABLE, tmr, env, hist, writes>>

ForTest ==
    /\ pc = "for_i"
    /\ pc' = IF i < BLINK_COUNT THEN "blink_ign_on" ELSE "clr_h"
    /\ UNCHANGED <<i, d, freq, outs, INPUT_DISABLE, tmr, env, hist, writes>>

BlinkIgnOn ==
    /\ pc = "blink_ign_on"
    /\ LED_IGNITION' = ON
    /\ pc' = "blink_link_off"
    /\ UNCHANGED <<i, d, freq, LED_LINK, MOS_GATE, INPUT_DISABLE, tmr, env, hist>>
    /\ writes' = Written("ign")

BlinkLinkOff ==
    /\ pc = "blink_link_off"
    /\ LED_LINK' = OFF
    /\ pc' = "blink_delay1"
    /\ UNCHANGED <<i, d, freq, LED_IGNITION, MOS_GATE, INPUT_DISABLE, tmr, env, hist>>
    /\ writes' = Written("link")

BlinkDelay1 ==
    /\ delayerMs("blink_delay1", BlinkTicks, "blink_ign_off")
    /\ UNCHANGED <<i, freq, outs, INPUT_DISABLE, tmr, env, hist, writes>>

BlinkIgnOff ==
    /\ pc = "blink_ign_off"
    /\ LED_IGNITION' = OFF
    /\ pc' = "blink_link_on"
    /\ UNCHANGED <<i, d, freq, LED_LINK, MOS_GATE, INPUT_DISABLE, tmr, env, hist>>
    /\ writes' = Written("ign")

BlinkLinkOn ==
    /\ pc = "blink_link_on"
    /\ LED_LINK' = ON
    /\ pc' = "blink_delay2"
    /\ UNCHANGED <<i, d, freq, LED_IGNITION, MOS_GATE, INPUT_DISABLE, tmr, env, hist>>
    /\ writes' = Written("link")

BlinkDelay2 ==
    /\ delayerMs("blink_delay2", BlinkTicks, "for_inc")
    /\ UNCHANGED <<i, freq, outs, INPUT_DISABLE, tmr, env, hist, writes>>

ForInc ==
    /\ pc = "for_inc"
    /\ i' = (i + 1) % UINT_MOD
    /\ pc' = "for_i"
    /\ UNCHANGED <<d, freq, outs, INPUT_DISABLE, tmr, env, hist, writes>>

(***************************************************************************)
(* main(): the counter is cleared before the loop                          *)
(***************************************************************************)
ClearH ==
    /\ pc = "clr_h"
    /\ TMR1H' = 0
    /\ pc' = "clr_l"
    /\ UNCHANGED <<i, d, freq, outs, INPUT_DISABLE, TMR1ON, TMR1L, env, hist, writes>>

ClearL ==
    /\ pc = "clr_l"
    /\ TMR1L' = 0
    /\ pc' = "input_disable"
    /\ UNCHANGED <<i, d, freq, outs, INPUT_DISABLE, TMR1ON, TMR1H, env, hist, writes>>

InputDisableOff ==
    /\ pc = "input_disable"
    /\ INPUT_DISABLE' = OFF
    /\ pc' = "tmr_on"
    /\ UNCHANGED <<i, d, freq, outs, tmr, env, hist, writes>>

(***************************************************************************)
(* main(): while (TRUE)                                                    *)
(***************************************************************************)
\* TMR1ON = ON: the window opens
TimerOn ==
    /\ pc = "tmr_on"
    /\ TMR1ON' = ON
    /\ pc' = "window"
    /\ winPulses' = 0
    /\ bursts' = 0
    /\ ignored' = FALSE
    /\ prevFreq' = 0
    /\ writes' = NoWrites
    /\ UNCHANGED <<i, d, freq, outs, INPUT_DISABLE, TMR1H, TMR1L, sigSeen,
                   ignSeen, priorLinkLed, linkRun, runStart>>

\* variant: the link led is blinked while waiting
Window_Blink ==
    /\ delayerMs("window", WindowTicks, "tmr_off")
    /\ LED_LINK' = IF d < WindowTicks THEN ToBit(BitNot(LED_LINK)) ELSE LED_LINK
    /\ UNCHANGED <<i, freq, LED_IGNITION, MOS_GATE, INPUT_DISABLE, tmr, env, hist, writes>>

\* delayerMs(1000)
Window ==
    /\ delayerMs("window", WindowTicks, "tmr_off")
    /\ UNCHANGED <<i, freq, outs, INPUT_DISABLE, tmr, env, hist, writes>>

\* variant: the counter is left running
TimerOff_Skipped ==
    /\ pc = "tmr_off"
    /\ pc' = "read_h"
    /\ UNCHANGED <<i, d, freq, outs, INPUT_DISABLE, tmr, env, hist, writes>>

\* TMR1ON = OFF: the window closes
TimerOff ==
    /\ pc = "tmr_off"
    /\ TMR1ON' = OFF
    /\ pc' = "read_h"
    /\ UNCHANGED <<i, d, freq, outs, INPUT_DISABLE, TMR1H, TMR1L, env, hist, writes>>

\* freq = TMR1H
ReadH ==
    /\ pc = "read_h"
    /\ freq' = TMR1H
    /\ prevFreq' = freq
    /\ pc' = "read_l"
    /\ UNCHANGED <<i, d, outs, INPUT_DISABLE, tmr, env,
                   ignSeen, priorLinkLed, linkRun, runStart, writes>>

\* freq = ((freq<<8)|(TMR1L))
ReadL ==
    /\ pc = "read_l"
    /\ freq' = BitOr(ShiftLeft8(freq), TMR1L, 16)
    /\ ignSeen' = (ignSeen \/ InIgnitionBand(freq'))
    /\ pc' = "classify"
    /\ UNCHANGED <<i, d, outs, INPUT_DISABLE, tmr, env,
                   prevFreq, priorLinkLed, linkRun, runStart, writes>>

\* if (...) else if (...) else: the branch is chosen
Classify ==
    /\ pc = "classify"
    /\ pc' = IF IsIgnition(freq) THEN "ign_led"
             ELSE IF IsYoda(freq) THEN "yoda_led"
             ELSE "idle_led"
    /\ priorLinkLed' = LED_LINK
    /\ IF InLinkBand(freq)
       THEN IF linkRun = 0 \/ linkRun >= MaxRun
            THEN linkRun' = 1 /\ runStart' = LED_LINK
            ELSE linkRun' = linkRun + 1 /\ runStart' = runStart
       ELSE linkRun' = 0 /\ runStart' = 0
    /\ UNCHANGED <<i, d, freq, outs, INPUT_DISABLE, tmr, env, ignSeen, prevFreq, writes>>

\* the ignition branch
IgnLed ==
    /\ pc = "ign_led"
    /\ LED_IGNITION' = ON
    /\ pc' = "ign_link"
    /\ UNCHANGED <<i, d, freq, LED_LINK, MOS_GATE, INPUT_DISABLE, tmr, env, hist>>
    /\ writes' = Written("ign")

\* variant: the ignition branch leaves the link led as it is
IgnLink_Skipped ==
    /\ pc = "ign_link"
    /\ pc' = "ign_mos"
    /\ UNCHANGED <<i, d, freq, outs, INPUT_DISABLE, tmr, env, hist, writes>>

IgnLink ==
    /\ pc = "ign_link"
    /\ LED_LINK' = OFF
    /\ pc' = "ign_mos"
    /\ UNCHANGED <<i, d, freq, LED_IGNITION, MOS_GATE, INPUT_DISABLE, tmr, env, hist>>
    /\ writes' = Written("link")

IgnMos ==
    /\ pc = "ign_mos"
    /\ MOS_GATE' = ON
    /\ pc' = "reset_h"
    /\ UNCHANGED <<i, d, freq, LED_IGNITION, LED_LINK, INPUT_DISABLE, tmr, env, hist>>
    /\ writes' = Written("mos")

\* the link check branch
\* variant: the link check branch does not write the ignition led
YodaLed_Skipped ==
    /\ pc = "yoda_led"
    /\ pc' = "yoda_link"
    /\ UNCHANGED <<i, d, freq, outs, INPUT_DISABLE, tmr, env, hist, writes>>

YodaLed ==
    /\ pc = "yoda_led"
    /\ LED_IGNITION' = OFF
    /\ pc' = "yoda_link"
    /\ UNCHANGED <<i, d, freq, LED_LINK, MOS_GATE, INPUT_DISABLE, tmr, env, hist>>
    /\ writes' = Written("ign")

\* variant: the led is set instead of toggled
YodaLink_Set ==
    /\ pc = "yoda_link"
    /\ LED_LINK' = ON
    /\ pc' = "yoda_mos"
    /\ UNCHANGED <<i, d, freq, LED_IGNITION, MOS_GATE, INPUT_DISABLE, tmr, env, hist>>
    /\ writes' = Written("link")

YodaLink ==
    /\ pc = "yoda_link"
    /\ LED_LINK' = ToBit(BitNot(LED_LINK))
    /\ pc' = "yoda_mos"
    /\ UNCHANGED <<i, d, freq, LED_IGNITION, MOS_GATE, INPUT_DISABLE, tmr, env, hist>>
    /\ writes' = Written("link")

\* variant: the link check branch does not write the gate
YodaMos_Skipped ==
    /\ pc = "yoda_mos"
    /\ pc' = "reset_h"
    /\ UNCHANGED <<i, d, freq, outs, INPUT_DISABLE, tmr, env, hist, writes>>

YodaMos ==
    /\ pc = "yoda_mos"
    /\ MOS_GATE' = OFF
    /\ pc' = "reset_h"
    /\ UNCHANGED <<i, d, freq, LED_IGNITION, LED_LINK, INPUT_DISABLE, tmr, env, hist>>
    /\ writes' = Written("mos")

\* the waiting branch
IdleLed ==
    /\ pc = "idle_led"
    /\ LED_IGNITION' = OFF
    /\ pc' = "idle_mos"
    /\ UNCHANGED <<i, d, freq, LED_LINK, MOS_GATE, INPUT_DISABLE, tmr, env, hist>>
    /\ writes' = Written("ign")

\* variant: the waiting branch does not write the gate
IdleMos_NoGateWrite ==
    /\ pc = "idle_mos"
    /\ pc' = "idle_link"
    /\ UNCHANGED <<i, d, freq, outs, INPUT_DISABLE, tmr, env, hist, writes>>

IdleMos ==
    /\ pc = "idle_mos"
    /\ MOS_GATE' = OFF
    /\ pc' = "idle_link"
    /\ UNCHANGED <<i, d, freq, LED_IGNITION, LED_LINK, INPUT_DISABLE, tmr, env, hist>>
    /\ writes' = Written("mos")

IdleLink ==
    /\ pc = "idle_link"
    /\ LED_LINK' = ON
    /\ pc' = "reset_h"
    /\ UNCHANGED <<i, d, freq, LED_IGNITION, MOS_GATE, INPUT_DISABLE, tmr, env, hist>>
    /\ writes' = Written("link")

\* variant: the high byte is not cleared
ResetH_Skipped ==
    /\ pc = "reset_h"
    /\ pc' = "reset_l"
    /\ UNCHANGED <<i, d, freq, outs, INPUT_DISABLE, tmr, env, hist, writes>>

\* variant: the low byte is not cleared
ResetL_Skipped ==
    /\ pc = "reset_l"
    /\ pc' = "tmr_on"
    /\ UNCHANGED <<i, d, freq, outs, INPUT_DISABLE, tmr, env, hist, writes>>

\* TMR1H = 0; TMR1L = 0: the counter is cleared for the next reading
ResetH ==
    /\ pc = "reset_h"
    /\ TMR1H' = 0
    /\ pc' = "reset_l"
    /\ UNCHANGED <<i, d, freq, outs, INPUT_DISABLE, TMR1ON, TMR1L, env, hist, writes>>

ResetL ==
    /\ pc = "reset_l"
    /\ TMR1L' = 0
    /\ pc' = "tmr_on"
    /\ UNCHANGED <<i, d, freq, outs, INPUT_DISABLE, TMR1ON, TMR1H, env, hist, writes>>

Startup ==
    \/ ForTest \/ BlinkIgnOn \/ BlinkLinkOff \/ BlinkDelay1
    \/ BlinkIgnOff \/ BlinkLinkOn \/ BlinkDelay2 \/ ForInc
    \/ ClearH \/ ClearL \/ InputDisableOff

Drive ==
    \/ IgnLed \/ IgnLink \/ IgnMos
    \/ YodaLed \/ YodaLink \/ YodaMos
    \/ IdleLed \/ IdleMos \/ IdleLink

Loop ==
    \/ TimerOn \/ Window \/ TimerOff
    \/ ReadH \/ ReadL \/ Classify
    \/ Drive
    \/ ResetH \/ ResetL

Next == Startup \/ Loop \/ PulseCounted \/ PulseIgnored

Spec == Init /\ [][Next]_vars

\* The processor always executes the next statement of main(): there is no
\* interrupt, no sleep and no watchdog reset that could hold it (INTCON = 0,
\* WDTCON = 0 in init()).  The signal on the clock pin is under no obligation.
\* For the progress of the loop the signal is one burst per window at most:
\* what the loop does next does not depend on the signal.
PulseOnce == bursts = 0 /\ PulseCounted

NextLive == Startup \/ Loop \/ PulseOnce \/ PulseIgnored

SpecLive == Init /\ [][NextLive]_vars /\ WF_vars(Startup \/ Loop)

(***************************************************************************)
(* The classification alone: the branch taken for every 16 bit count.     *)
(* The state is the one the first cycle is in when it has read the count. *)
(***************************************************************************)
InitClassify ==
    /\ pc = "classify"
    /\ i = BLINK_COUNT
    /\ d = 0
    /\ freq \in 0 .. (UINT_MOD - 1)
    /\ LED_IGNITION = 0
    /\ LED_LINK = 1
    /\ MOS_GATE = 0
    /\ INPUT_DISABLE = 0
    /\ TMR1ON = 0
    /\ TMR1H = freq \div BYTE_MOD
    /\ TMR1L = freq % BYTE_MOD
    /\ winPulses = freq
    /\ bursts = IF freq = 0 THEN 0 ELSE 1
    /\ ignored = FALSE
    /\ sigSeen = (freq # 0)
    /\ ignSeen = InIgnitionBand(freq)
    /\ prevFreq = 0
    /\ priorLinkLed = 0
    /\ linkRun = 0
    /\ runStart = 0
    /\ writes = NoWrites

NextClassify == Classify

SpecClassify == InitClassify /\ [][NextClassify]_vars

(***************************************************************************)
(* Properties                                                              *)
(***************************************************************************)
\* the statements of the three branches that write the outputs
DrivePcs ==
    {"ign_led", "ign_link", "ign_mos",
     "yoda_led", "yoda_link", "yoda_mos",
     "idle_led", "idle_mos", "idle_link"}

\* C1: after the drive step of a cycle, mosGate is ON if and only if the
\* count read in that cycle lies in [300, 600], whatever the outputs were
\* before the cycle.
C1_GateIffIgnition ==
    pc \in {"reset_h", "reset_l"} => (MOS_GATE = ON <=> InIgnitionBand(freq))

\* an ignition cycle followed by a cycle outside the band has ended, gate off
C1_Witness ==
    /\ pc = "reset_h"
    /\ InIgnitionBand(prevFreq)
    /\ ~InIgnitionBand(freq)
    /\ MOS_GATE = OFF

\* C2: mosGate is OFF in every state as long as no cycle has read a count in
\* [300, 600]; as long as no pulse arrived in any window it is OFF as well.
C2_FailSafeOff ==
    /\ MOS_GATE = ON => ignSeen
    /\ ~sigSeen => MOS_GATE = OFF

\* a cycle that counted pulses just outside the band has ended, gate still off
C2_Witness ==
    /\ pc = "reset_h"
    /\ ~ignSeen
    /\ freq = 601
    /\ MOS_GATE = OFF

\* C3: from the read of the count to the end of the drive step there is no
\* state in which mosGate is ON while the count just read is outside
\* [300, 600].
C3_NoTransientGate ==
    (pc \in ({"classify", "reset_h"} \cup DrivePcs) /\ ~InIgnitionBand(freq))
        => MOS_GATE = OFF

\* C4: for every 16 bit count exactly one branch is taken: the ignition
\* branch iff 300 <= n <= 600, the link branch iff 4500 <= n <= 5500, the
\* waiting branch otherwise.
C4_ClassifyTotal ==
    pc # "classify" =>
        /\ pc \in {"ign_led", "yoda_led", "idle_led"}
        /\ pc = "ign_led" <=> InIgnitionBand(freq)
        /\ pc = "yoda_led" <=> InLinkBand(freq)
        /\ pc = "idle_led" <=> (~InIgnitionBand(freq) /\ ~InLinkBand(freq))

\* the largest count takes the waiting branch
C4_Witness == pc = "idle_led" /\ freq = 65535

\* C5 as stated: a count of 299 and then a count of 301 both end with the
\* outputs of the waiting branch (mosGate OFF after both cycles).
C5_BothIdle ==
    /\ (pc = "reset_h" /\ freq = 299)
        => (LED_IGNITION = OFF /\ LED_LINK = ON /\ MOS_GATE = OFF)
    /\ (pc = "reset_h" /\ prevFreq = 299 /\ freq = 301)
        => (LED_IGNITION = OFF /\ LED_LINK = ON /\ MOS_GATE = OFF)

\* C5 amended: a count of 299 ends with the outputs of the waiting branch
\* (mosGate OFF); the count of 301 of the next cycle ends with the outputs of
\* the ignition branch (mosGate ON).
C5_IdleThenIgnition ==
    /\ (pc = "reset_h" /\ freq = 299)
        => (LED_IGNITION = OFF /\ LED_LINK = ON /\ MOS_GATE = OFF)
    /\ (pc = "reset_h" /\ prevFreq = 299 /\ freq = 301)
        => (LED_IGNITION = ON /\ LED_LINK = OFF /\ MOS_GATE = ON)

\* the cycle that read 301 after a cycle that read 299 has ended
C5_Witness == pc = "reset_h" /\ prevFreq = 299 /\ freq = 301

\* C6: while the two bytes of the count are read the counter is disabled and
\* no step changes the counter register; the value read is the register's.
C6_ReadWhileDisabled ==
    [][/\ pc \in {"read_h", "read_l"}
            => (TMR1ON = OFF /\ TMR1H' = TMR1H /\ TMR1L' = TMR1L)
       /\ (pc = "read_l" /\ pc' = "classify") => freq' = Counter']_vars

\* between the two byte reads, pulses have arrived and both bytes are non zero
C6_Witness ==
    /\ pc = "read_l"
    /\ ignored
    /\ TMR1H # 0
    /\ TMR1L # 0

\* C7: whenever the counter is enabled the register is 0, and the register
\* is cleared only while the counter is disabled.
C7_ZeroAtEnable ==
    [][/\ (TMR1ON = OFF /\ TMR1ON' = ON) => (Counter = 0 /\ Counter' = 0)
       /\ pc \in {"clr_h", "clr_l", "reset_h", "reset_l"} => TMR1ON = OFF]_vars

\* a window has just been opened on a cleared register after a cycle that
\* read 5500
C7_Witness ==
    /\ pc = "window"
    /\ TMR1ON = ON
    /\ bursts = 0
    /\ freq = 5500
    /\ Counter = 0

\* C8: the branch is chosen and the outputs are written only while the
\* counter is disabled, and the count they are computed from is the number
\* of pulses that arrived during this cycle's window (modulo 2^16): pulses
\* that arrived while the counter was disabled and pulses of earlier windows
\* are not part of it.
C8_DrivenFromOwnWindow ==
    /\ pc \in ({"read_h", "read_l", "classify"} \cup DrivePcs) => TMR1ON = OFF
    /\ pc \in ({"classify", "reset_h"} \cup DrivePcs) => freq = winPulses % 65536
    /\ pc = "reset_h" =>
        (MOS_GATE = ON <=> InIgnitionBand(winPulses % 65536))

\* a cycle ends whose window counted two bursts, after a cycle with a non
\* zero count, with pulses that arrived after the window was closed
C8_Witness ==
    /\ pc = "reset_h"
    /\ bursts = 2
    /\ prevFreq # 0
    /\ ignored
    /\ freq # 0

\* C9: after the drive step the leds follow the table: ignition band gives
\* ignitionLed ON and linkLed OFF; link band gives ignitionLed OFF and
\* linkLed negated; any other count gives ignitionLed OFF and linkLed ON.
C9_LedTable ==
    pc = "reset_h" =>
        /\ InIgnitionBand(freq) => (LED_IGNITION = ON /\ LED_LINK = OFF)
        /\ InLinkBand(freq) => (LED_IGNITION = OFF /\ LED_LINK = 1 - priorLinkLed)
        /\ (~InIgnitionBand(freq) /\ ~InLinkBand(freq))
            => (LED_IGNITION = OFF /\ LED_LINK = ON)

\* a link-check cycle has turned the link led off
C9_Witness ==
    /\ pc = "reset_h"
    /\ InLinkBand(freq)
    /\ priorLinkLed = ON
    /\ LED_LINK = OFF

\* C10: after the n-th of consecutive link-check cycles linkLed is the value
\* it had before the run negated n times; from OFF it goes ON, OFF, ON, ...
C10_HeartbeatToggle ==
    (pc \in {"reset_h", "reset_l", "tmr_on"} /\ linkRun > 0)
        => LED_LINK = (runStart + linkRun) % 2

\* the third link-check cycle of a run that began with the led off has ended
C10_Witness ==
    /\ pc = "reset_h"
    /\ linkRun = 3
    /\ runStart = OFF
    /\ LED_LINK = ON

\* C11: while a measurement window is open (from the step that enables the
\* counter to the step that disables it) no output changes; only the counter
\* register, and the loop variable of the wait, change.
C11_OutputsFrozenInWindow ==
    [][TMR1ON = ON =>
        /\ outs' = outs
        /\ freq' = freq
        /\ INPUT_DISABLE' = INPUT_DISABLE
        /\ i' = i]_vars

\* the wait of a window is over, pulses were counted and the gate is still on
C11_Witness ==
    /\ pc = "window"
    /\ d = WindowTicks
    /\ TMR1ON = ON
    /\ bursts > 0
    /\ MOS_GATE = ON

\* the outputs the specification's table gives for a count n and the value
\* prior of linkLed before the drive step
TableOuts(n, prior) ==
    IF InIgnitionBand(n) THEN <<ON, OFF, ON>>
    ELSE IF InLinkBand(n) THEN <<OFF, 1 - prior, OFF>>
    ELSE <<OFF, ON, OFF>>

\* C12: the three outputs after a cycle are a function of the count read in
\* that cycle and of linkLed before the drive step, and of nothing else in
\* the history (so two executions that agree on these two agree on the
\* outputs); ignitionLed and mosGate are a function of the count alone.
C12_NoMemory ==
    pc = "reset_h" =>
        /\ outs = TableOuts(freq, priorLinkLed)
        /\ LED_IGNITION = TableOuts(freq, 0)[1]
        /\ MOS_GATE = TableOuts(freq, 0)[3]

\* a count of 601 directly after a count of 600: the band has flipped
C12_Witness ==
    /\ pc = "reset_h"
    /\ prevFreq = 600
    /\ freq = 601
    /\ MOS_GATE = OFF

\* C16: the toggle memory is the linkLed latch: a link-check cycle directly
\* after startup or after a waiting cycle turns linkLed OFF, a link-check
\* cycle directly after an ignition cycle turns linkLed ON.  (Before the
\* first cycle freq is 0 and the startup has left linkLed ON.)
C16_FirstToggle ==
    (pc = "reset_h" /\ InLinkBand(freq)) =>
        /\ InIgnitionBand(prevFreq) => LED_LINK = ON
        /\ (~InIgnitionBand(prevFreq) /\ ~InLinkBand(prevFreq)) => LED_LINK = OFF

\* a link-check cycle directly after an ignition cycle has ended
C16_Witness ==
    /\ pc = "reset_h"
    /\ InLinkBand(freq)
    /\ InIgnitionBand(prevFreq)
    /\ LED_LINK = ON

\* C17: the value that is classified is 256 * TMR1H + TMR1L, which is the
\* number of pulses of the window modulo 65536, and the branch taken is the
\* band of that number: the counter wraps silently.
C17_CountModulo ==
    /\ pc = "classify" =>
        (freq = 256 * TMR1H + TMR1L /\ freq = winPulses % 65536)
    /\ pc \in DrivePcs =>
        /\ pc \in {"ign_led", "ign_link", "ign_mos"}
            <=> InIgnitionBand(winPulses % 65536)
        /\ pc \in {"yoda_led", "yoda_link", "yoda_mos"}
            <=> InLinkBand(winPulses % 65536)

\* 65535 + 600 pulses in one window are classified like 599 pulses
C17_Witness ==
    /\ pc = "ign_led"
    /\ winPulses = 65535 + 600
    /\ freq = 599

\* C18: while a window is open the outputs (ignitionLed, linkLed, mosGate)
\* are (ON, OFF, ON), (OFF, ON, OFF) or (OFF, OFF, OFF).
C18_OutputTriples ==
    TMR1ON = ON =>
        outs \in {<<ON, OFF, ON>>, <<OFF, ON, OFF>>, <<OFF, OFF, OFF>>}

\* a window is open, pulses are counted, all three outputs are off
C18_Witness ==
    /\ TMR1ON = ON
    /\ bursts > 0
    /\ outs = <<OFF, OFF, OFF>>

\* the statements of the startup, up to the one that opens the first window
StartupPcs ==
    {"for_i", "blink_ign_on", "blink_link_off", "blink_delay1", "blink_ign_off",
     "blink_link_on", "blink_delay2", "for_inc", "clr_h", "clr_l", "input_disable"}

\* C14: in every cycle, whichever branch is taken, each of the three output
\* lines is written exactly once, by the drive step: no line has been
\* written from the opening of the window to the choice of the branch, no
\* line is written twice, and each has been written once when the drive
\* step has ended and when the counter is cleared.
C14_WrittenOncePerCycle ==
    /\ pc \in {"window", "tmr_off", "read_h", "read_l", "classify"}
        => writes = [ign |-> 0, link |-> 0, mos |-> 0]
    /\ pc \in DrivePcs
        => (writes.ign <= 1 /\ writes.link <= 1 /\ writes.mos <= 1)
    /\ pc \in {"reset_h", "reset_l"}
        => writes = [ign |-> 1, link |-> 1, mos |-> 1]

\* a link-check cycle has ended with one write of each line
C14_Witness ==
    /\ pc = "reset_l"
    /\ InLinkBand(freq)
    /\ writes = [ign |-> 1, link |-> 1, mos |-> 1]

\* C15: the startup blink runs once, before the first window opens: 5
\* iterations, each setting (ignitionLed ON, linkLed OFF) and then
\* (ignitionLed OFF, linkLed ON); it never writes mosGate and it leaves
\* ignitionLed OFF, linkLed ON, mosGate OFF; it is never entered again.
C15_StartupBlink ==
    /\ [](pc \in StartupPcs =>
            (TMR1ON = OFF /\ MOS_GATE = OFF /\ writes.mos = 0 /\ i <= 5))
    /\ [](pc = "for_i" =>
            (writes.ign = 2 * i /\ writes.link = 2 * i))
    /\ [](pc = "blink_delay1" => outs = <<ON, OFF, OFF>>)
    /\ [](pc = "blink_delay2" => outs = <<OFF, ON, OFF>>)
    /\ [](pc \in {"clr_h", "clr_l", "input_disable"} =>
            (i = 5 /\ writes = [ign |-> 10, link |-> 10, mos |-> 0]
                   /\ outs = <<OFF, ON, OFF>>))
    /\ [][pc \notin StartupPcs => pc' \notin StartupPcs]_vars

\* the first window is about to open after the five blinks
C15_Witness ==
    /\ pc = "tmr_on"
    /\ i = 5
    /\ writes = [ign |-> 10, link |-> 10, mos |-> 0]
    /\ outs = <<OFF, ON, OFF>>

\* C13: the loop never stops: every window that is opened is closed (the
\* wait ends and nothing leaves it but its own end), every closed window is
\* followed by the read, the drive step, the clearing of the counter and the
\* opening of the next window, and the outputs are driven infinitely often.
C13_LoopNeverStops ==
    /\ (TMR1ON = ON) ~> (pc = "read_h" /\ TMR1ON = OFF)
    /\ (pc = "read_h") ~> (pc = "reset_h")
    /\ (pc = "reset_h") ~> (pc = "window" /\ TMR1ON = ON /\ Counter = 0)
    /\ []<>(pc = "reset_h")
    /\ [][pc = "window" => pc' \in {"window", "tmr_off"}]_vars

\* a window after the first one has been waited out and is about to be closed
C13_Witness ==
    /\ pc = "tmr_off"
    /\ TMR1ON = ON
    /\ d = 0
    /\ writes = [ign |-> 0, link |-> 0, mos |-> 0]
    /\ freq # 0

====
